---- MODULE Spec2Model ----
(***************************************************************************)
(* The orbit tracker control plane of gs/tracking/orbit_tracker.py as a    *)
(* state machine.  One event loop runs cooperative tasks: handler tasks    *)
(* executing add_target / remove_target and one driver task per            *)
(* TargetTracker.  A step of the model is the code a task executes between *)
(* two await points.                                                       *)
(***************************************************************************)
EXTENDS Integers, Sequences, FiniteSets, TLC

\* ---------------------------------------------------------------- bounds
MaxTime == 8          \* the clock stops here
MaxTickDelay == 1     \* seconds by which a tick may follow its sleep(2) late
MaxS5Time == 96       \* the clock of scenario S5 stops here
MaxInvocations == 2   \* handler invocations in one behaviour
MaxRaceInvocations == 5   \* the same, where only handlers run
MaxAngle == 720       \* angles of geometry.py: -MaxAngle..MaxAngle degrees
NPoints == 4          \* measurements loaded by the calibration
MaxIters == 3         \* --iters of the calibration
MaxSchedInvocations == 3  \* scheduler events delivered in one behaviour
MaxAvailInvocations == 2  \* handler invocations where passes come and go
MaxAvailTime == 5     \* the clock stops here where passes come and go

\* ------------------------------------------------------- program constants
DEFAULT_PREAOS_TIME == 120
TickSleep == 2
Lookahead == 1

Targets == {"A", "B"}
Rotators == {"r1", "r2"}
None == "None"

\* TrackerStatus (IntEnum)
TrackerStatus ==
    [DISABLED |-> 0, WAITING |-> 1, AOS |-> 2, TRACKING |-> 3, LOS |-> 4]

Statuses == {"DISABLED", "WAITING", "AOS", "TRACKING", "LOS"}

\* ------------------------------------------------------------- the target
\* A Pass is read-only: its t_aos and t_los.  NoPass is get_next_pass() = None.
NoPass == [t_aos |-> -1, t_los |-> -1]

\* Offsets (relative to the lookup time) and durations of the passes the
\* ephemeris adapter may hand out.
AosOffsets == {0, 4}
PassDurations == {3}
PreaosTimes == {3}

Passes(now, offs, durs) ==
    {[t_aos |-> now + o, t_los |-> now + o + d] : o \in offs, d \in durs}

\* -------------------------------------------------------------- variables
VARIABLES
    now,              \* wall clock, seconds
    target_trackers,  \* OrbitTracker.target_trackers: sequence of tracker ids
    tt,               \* the TargetTracker objects, by id
    calls,            \* handler invocations in flight, by slot
    out,              \* messages published by the last step
    ret,              \* how a handler invocation ended in the last step
    nInv,             \* handler invocations so far
    scheduler_enabled,  \* OrbitTracker.scheduler_enabled
    geo               \* the call of a pure function being evaluated

vars == <<now, target_trackers, tt, calls, out, ret, nInv, scheduler_enabled,
          geo>>

\* The TargetTracker objects that can be alive at once, and the handler
\* invocations that can be in flight at once.
TrackerIds == {1, 2, 3}
CallIds == {1, 2}

Range(s) == {s[i] : i \in 1..Len(s)}

\* A TargetTracker object that does not exist.
NullTracker ==
    [target |-> None, rotators |-> {}, preaos_time |-> 0, status |-> "WAITING",
     task |-> "none", wake |-> 0, lag |-> 0, losDue |-> FALSE,
     next_pass |-> NoPass,
     evPre |-> FALSE, evAos |-> FALSE, evLos |-> {}, nPos |-> 0, lastTs |-> -1,
     nCalc |-> 0]

IdleCall ==
    [op |-> "idle", pc |-> "idle", routing_key |-> "", tracker |-> "",
     json_ok |-> TRUE, target_name |-> None, rotators |-> {},
     rotNone |-> FALSE, preaos_time |-> 0, found |-> FALSE,
     next_pass |-> NoPass,
     i |-> 0, remove_idxs |-> {}, iter |-> <<>>, stale |-> FALSE,
     emptied |-> {}]

NoRet == [op |-> "none", how |-> "none", at |-> "none", target_name |-> None,
          rotators |-> {}]

\* No call of geometry.py is being evaluated.
NoGeo == [op |-> "none"]

\* OrbitTracker.__init__: no trackers, no handler running (no default target).
Init ==
    /\ now = 0
    /\ target_trackers = <<>>
    /\ tt = [k \in TrackerIds |-> NullTracker]
    /\ calls = [c \in CallIds |-> IdleCall]
    /\ out = <<>>
    /\ ret = NoRet
    /\ nInv = 0
    /\ scheduler_enabled = TRUE
    /\ geo = NoGeo


\* ------------------------------------------------------------ the message bus
\* A published message: an event (next_pass, preaos, aos, los) or a pointing
\* sample (position).  id is the publishing tracker (0: the supervisor).
Msg(key, id, target, rotators, timestamp) ==
    [key |-> key, id |-> id, target |-> target, rotators |-> rotators,
     timestamp |-> timestamp]

SendEvent(event_name, id, target, rotators) ==
    <<Msg(event_name, id, target, rotators, 0)>>

\* ------------------------------------------------------------------ helpers
LiveTask(p) == p \notin {"none", "cancelled", "failed", "done"}

IterRefs(cs) ==
    UNION {Range(cs[c].iter) : c \in {d \in CallIds : cs[d].op = "remove"}}

\* Tracker objects nothing refers to any more are dropped; of a stopped
\* tracker (no target, no rotators, task cancelled) nothing else is read.
Collect(tts, list, cs) ==
    [k \in TrackerIds |->
        IF /\ k \notin Range(list)
           /\ k \notin IterRefs(cs)
           /\ ~LiveTask(tts[k].task)
        THEN NullTracker
        ELSE IF tts[k].target = None /\ tts[k].task # "none"
        THEN [NullTracker EXCEPT !.task = tts[k].task]
        ELSE tts[k]]

FreeIds == {k \in TrackerIds : tt[k].task = "none"}

LowestIdle(c) ==
    /\ calls[c].op = "idle"
    /\ \A d \in CallIds : d < c => calls[d].op # "idle"

\* How, and from which await, an invocation ended.
Returned(call, how) ==
    [op |-> call.op, how |-> how, at |-> call.pc,
     target_name |-> call.target_name, rotators |-> call.rotators]

\* ---------------------------------------------------------------- add_target
\* A handler task (scheduler event or RPC) enters add_target and suspends at
\* the first await.
CallAddTarget(c, target_name, rotNone, rotators, preaos_time) ==
    /\ LowestIdle(c)
    /\ nInv' = nInv + 1
    /\ calls' = [calls EXCEPT ![c] =
                    [IdleCall EXCEPT !.op = "add", !.pc = "a_sleep0",
                                     !.target_name = target_name,
                                     !.rotNone = rotNone,
                                     !.rotators = rotators,
                                     !.preaos_time = preaos_time]]
    /\ out' = <<>>
    /\ ret' = NoRet
    /\ UNCHANGED <<now, target_trackers, tt, scheduler_enabled, geo>>

\* target_name of every tracker in the list, as the comprehension of the
\* duplicate check reads them.
TrackedNames(list, tts) == [i \in 1..Len(list) |-> tts[list[i]].target]

\* add_target without its duplicate check.
AddTargetGuard_NoDuplicateCheck(target_name, rotNone, rotators, names) ==
    IF target_name = None \/ target_name = "" THEN "reject"
    ELSE IF rotNone \/ rotators = {} THEN "reject"
    ELSE "proceed"

\* The three early returns of add_target: "reject", "raise" (a tracker of the
\* list has no target: AttributeError) or "proceed".
AddTargetGuard(target_name, rotNone, rotators, names) ==
    IF target_name = None \/ target_name = "" THEN "reject"
    ELSE IF rotNone \/ rotators = {} THEN "reject"
    ELSE IF \E i \in 1..Len(names) : names[i] = None THEN "raise"
    ELSE IF \E i \in 1..Len(names) : names[i] = target_name THEN "reject"
    ELSE "proceed"

AddTargetCheck(c) ==
    /\ calls[c].op = "add" /\ calls[c].pc = "a_sleep0"
    /\ LET g == AddTargetGuard(calls[c].target_name, calls[c].rotNone,
                               calls[c].rotators,
                               TrackedNames(target_trackers, tt))
       IN  IF g = "proceed"
           THEN /\ calls' = [calls EXCEPT ![c].pc = "a_lookup"]
                /\ ret' = NoRet
           ELSE /\ calls' = [calls EXCEPT ![c] = IdleCall]
                /\ ret' = Returned(calls[c],
                                   IF g = "raise" THEN "raised" ELSE "returned")
    /\ out' = <<>>
    /\ UNCHANGED <<now, target_trackers, tt, nInv, scheduler_enabled, geo>>

\* What the ephemeris adapter answers: no target, a target without passes, or
\* a target whose next pass is p.
Lookups(offs, durs) ==
    {[found |-> FALSE, next_pass |-> NoPass], [found |-> TRUE, next_pass |-> NoPass]}
    \cup {[found |-> TRUE, next_pass |-> p] : p \in Passes(now, offs, durs)}

\* The awaited get_satellite / get_celestial_object completes with answer l;
\* the handler task is resumed by a later step of the loop.
LookupAnswers(c, answers) ==
    /\ calls[c].op = "add" /\ calls[c].pc = "a_lookup"
    /\ \E l \in answers :
          calls' = [calls EXCEPT ![c].pc = "a_answer",
                                 ![c].found = l.found,
                                 ![c].next_pass = l.next_pass]
    /\ out' = <<>>
    /\ ret' = NoRet
    /\ UNCHANGED <<now, target_trackers, tt, nInv, scheduler_enabled, geo>>

\* add_target without the test of next_pass.
AddTargetResolved_FoundOnly(found, next_pass) == found

\* add_target after the lookup: TRUE iff next_pass is to be announced.
AddTargetResolved(found, next_pass) ==
    found /\ next_pass # NoPass

\* add_target creating the tracker without the next_pass event.
AddTargetResolve_Silent(c) ==
    /\ calls[c].op = "add" /\ calls[c].pc = "a_answer"
    /\ IF AddTargetResolved(calls[c].found, calls[c].next_pass)
       THEN /\ calls' = [calls EXCEPT ![c].pc = "a_sent"]
            /\ ret' = NoRet
       ELSE /\ calls' = [calls EXCEPT ![c] = IdleCall]
            /\ ret' = Returned(calls[c], "returned")
    /\ out' = <<>>
    /\ UNCHANGED <<now, target_trackers, tt, nInv, scheduler_enabled, geo>>

\* Back from the lookup: target is None or has no next pass (return), or the
\* next_pass event is published.
AddTargetResolve(c) ==
    /\ calls[c].op = "add" /\ calls[c].pc = "a_answer"
    /\ IF AddTargetResolved(calls[c].found, calls[c].next_pass)
       THEN /\ calls' = [calls EXCEPT ![c].pc = "a_sent"]
            /\ out' = SendEvent("next_pass", 0, calls[c].target_name,
                                calls[c].rotators)
            /\ ret' = NoRet
       ELSE /\ calls' = [calls EXCEPT ![c] = IdleCall]
            /\ out' = <<>>
            /\ ret' = Returned(calls[c], "returned")
    /\ UNCHANGED <<now, target_trackers, tt, nInv, scheduler_enabled, geo>>

\* TargetTracker.__init__ followed by start(): the driver task exists but has
\* not run yet.
NewTracker(target, rotators, preaos_time, next_pass) ==
    [NullTracker EXCEPT !.target = target, !.rotators = rotators,
                        !.preaos_time = preaos_time, !.status = "WAITING",
                        !.task = "start", !.next_pass = next_pass]

\* list.append on the list object that self.target_trackers names: iterations
\* running over that same object see the new element.
AppendSeen(cs, k) ==
    [d \in CallIds |->
        IF cs[d].op = "remove" /\ cs[d].pc = "r_in_stop" /\ ~cs[d].stale
        THEN [cs[d] EXCEPT !.iter = Append(@, k)] ELSE cs[d]]

AddTargetCreate(c) ==
    /\ calls[c].op = "add" /\ calls[c].pc = "a_sent"
    /\ FreeIds # {}
    /\ LET k == CHOOSE x \in FreeIds : \A y \in FreeIds : x <= y
       IN  /\ tt' = [tt EXCEPT ![k] =
                        NewTracker(calls[c].target_name, calls[c].rotators,
                                   calls[c].preaos_time, calls[c].next_pass)]
           /\ target_trackers' = Append(target_trackers, k)
           /\ calls' = AppendSeen([calls EXCEPT ![c] = IdleCall], k)
    /\ out' = <<>>
    /\ ret' = Returned(calls[c], "returned")
    /\ UNCHANGED <<now, nInv, scheduler_enabled, geo>>


\* ------------------------------------------------------------- remove_target
CallRemoveTarget(c, target_name, rotators) ==
    /\ LowestIdle(c)
    /\ nInv' = nInv + 1
    /\ calls' = [calls EXCEPT ![c] =
                    [IdleCall EXCEPT !.op = "remove", !.pc = "r_sleep0",
                                     !.target_name = target_name,
                                     !.rotators = rotators]]
    /\ out' = <<>>
    /\ ret' = NoRet
    /\ UNCHANGED <<now, target_trackers, tt, scheduler_enabled, geo>>

\* The condition of the loop body for one tracker: "raise" when the tracker
\* has no target (tt.target.target_name on None), "stop" on a match.
RemoveMatch(tracker, target_name, rotators) ==
    IF tracker.target = None THEN "raise"
    ELSE IF tracker.target = target_name /\ (rotators \cap tracker.rotators) # {}
         THEN "stop"
         ELSE "skip"

\* The for loop from position i on, up to its next await: the first position
\* that raises or matches, or the end of the list.
RECURSIVE Scan(_, _, _, _, _)
Scan(iter, i, target_name, rotators, tts) ==
    IF i > Len(iter) THEN [kind |-> "end", at |-> i]
    ELSE LET m == RemoveMatch(tts[iter[i]], target_name, rotators)
         IN  IF m = "skip" THEN Scan(iter, i + 1, target_name, rotators, tts)
             ELSE [kind |-> m, at |-> i]

\* stop() without the cancel of the driver task.
Cancel_Never(task) == task

\* Task.cancel(): a task that has not finished never runs again.
Cancel(task) == IF LiveTask(task) THEN "cancelled" ELSE task

\* stop() cancelling the driver and clearing the target whatever is left.
Stop_AlwaysCancels(tracker, rotators) ==
    [tracker EXCEPT
        !.rotators = tracker.rotators \ rotators,
        !.task = Cancel(@),
        !.target = None,
        !.evLos = @ \cup (tracker.rotators \cap rotators)]

\* TargetTracker.stop up to its await: the tracker it leaves behind.
Stop(tracker, rotators) ==
    LET left == tracker.rotators \ rotators
    IN  [tracker EXCEPT
            !.rotators = left,
            !.task = IF left = {} THEN Cancel(@) ELSE @,
            !.target = IF left = {} THEN None ELSE @,
            !.evLos = @ \cup (tracker.rotators \cap rotators)]

\* The rotators named by the event stop() publishes.
StopRotators(tracker, rotators) == tracker.rotators \cap rotators

\* What stop() publishes: los for the rotators it took away, or nothing
\* (sleep(0)) when it took none away.
StopEvents(id, tracker, rotators) ==
    IF StopRotators(tracker, rotators) # {}
    THEN SendEvent("los", id, tracker.target, StopRotators(tracker, rotators))
    ELSE <<>>

\* self.target_trackers = [tt for i, tt in enumerate(...) if i not in remove_idxs]
Rebuild(list, remove_idxs) ==
    LET keep == {i \in 1..Len(list) : i \notin remove_idxs}
        RECURSIVE F(_)
        F(i) == IF i > Len(list) THEN <<>>
                ELSE IF i \in keep THEN <<list[i]>> \o F(i + 1) ELSE F(i + 1)
    IN  F(1)

\* The other iterations now run over a list object self.target_trackers no
\* longer names.
Rebound(cs) ==
    [d \in CallIds |->
        IF cs[d].op = "remove" /\ cs[d].pc = "r_in_stop"
        THEN [cs[d] EXCEPT !.stale = TRUE] ELSE cs[d]]

\* remove_target from position `from` of its loop with remove_idxs `idxs`.
RemoveContinue(c, iter, from, idxs) ==
    LET call == calls[c]
        s == Scan(iter, from, call.target_name, call.rotators, tt)
    IN  CASE s.kind = "raise" ->
              /\ calls' = [calls EXCEPT ![c] = IdleCall]
              /\ tt' = Collect(tt, target_trackers, calls')
              /\ out' = <<>>
              /\ ret' = Returned(call, "raised")
              /\ UNCHANGED target_trackers
          [] s.kind = "end" ->
              /\ target_trackers' = Rebuild(target_trackers, idxs)
              /\ calls' = Rebound([calls EXCEPT ![c] = IdleCall])
              /\ tt' = Collect(tt, target_trackers', calls')
              /\ out' = <<>>
              /\ ret' = Returned(call, "returned")
          [] s.kind = "stop" ->
              LET k == iter[s.at]
                  stopped == Stop(tt[k], call.rotators)
                  emptied == IF stopped.rotators = {}
                             THEN call.emptied \cup {k} ELSE call.emptied
              IN  /\ calls' = [calls EXCEPT ![c].pc = "r_in_stop",
                                            ![c].iter = iter,
                                            ![c].i = s.at,
                                            ![c].remove_idxs = idxs,
                                            ![c].emptied = emptied]
                  /\ tt' = Collect([tt EXCEPT ![k] = stopped],
                                   target_trackers, calls')
                  /\ out' = SendEvent("los", k, tt[k].target,
                                      StopRotators(tt[k], call.rotators))
                  /\ ret' = NoRet
                  /\ UNCHANGED target_trackers

RemoveStart(c) ==
    /\ calls[c].op = "remove" /\ calls[c].pc = "r_sleep0"
    /\ RemoveContinue(c, target_trackers, 1, {})
    /\ UNCHANGED <<now, nInv, scheduler_enabled, geo>>

\* Back from `await tt.stop(rotators)`.
RemoveResume(c) ==
    /\ calls[c].op = "remove" /\ calls[c].pc = "r_in_stop"
    /\ LET call == calls[c]
           idxs == IF tt[call.iter[call.i]].rotators = {}
                   THEN call.remove_idxs \cup {call.i} ELSE call.remove_idxs
       IN  RemoveContinue(c, call.iter, call.i + 1, idxs)
    /\ UNCHANGED <<now, nInv, scheduler_enabled, geo>>


\* ------------------------------------------------------- the driver task
\* setup() sleeping one second between ticks.
Sleeping_OneSecond(tracker) ==
    [tracker EXCEPT !.task = "sleep", !.wake = now + 1, !.losDue = FALSE]

\* `await asyncio.sleep(2)` in setup(): the task sleeps until now + 2.
Sleeping(tracker) ==
    [tracker EXCEPT !.task = "sleep", !.wake = now + TickSleep,
                    !.losDue = FALSE]

\* update_tracking without the preaos branch of WAITING.
UpdateTracking_NoPreaos(status, tnow, next_pass, preaos_time) ==
    LET st == IF next_pass = NoPass THEN "DISABLED" ELSE status
        quiet == [status |-> st, publish |-> "none",
                  losDue |-> FALSE, recalc |-> FALSE]
    IN  CASE st \in {"WAITING", "AOS"} ->
               IF tnow >= next_pass.t_aos
               THEN [quiet EXCEPT !.publish = "aos"]
               ELSE quiet
          [] st = "TRACKING" ->
               [quiet EXCEPT !.publish = "position",
                             !.losDue = (tnow >= next_pass.t_los)]
          [] st = "LOS" ->
               [quiet EXCEPT !.status = "WAITING", !.recalc = TRUE]
          [] OTHER -> quiet

\* update_tracking testing the preaos window before t_aos.
UpdateTracking_PreaosFirst(status, tnow, next_pass, preaos_time) ==
    LET st == IF next_pass = NoPass THEN "DISABLED" ELSE status
        quiet == [status |-> st, publish |-> "none",
                  losDue |-> FALSE, recalc |-> FALSE]
    IN  CASE st = "WAITING" ->
               IF tnow >= next_pass.t_aos - preaos_time
               THEN [quiet EXCEPT !.publish = "preaos"]
               ELSE IF tnow >= next_pass.t_aos
               THEN [quiet EXCEPT !.publish = "aos"]
               ELSE quiet
          [] st = "AOS" ->
               IF tnow >= next_pass.t_aos
               THEN [quiet EXCEPT !.publish = "aos"]
               ELSE quiet
          [] st = "TRACKING" ->
               [quiet EXCEPT !.publish = "position",
                             !.losDue = (tnow >= next_pass.t_los)]
          [] st = "LOS" ->
               [quiet EXCEPT !.status = "WAITING", !.recalc = TRUE]
          [] OTHER -> quiet

\* update_tracking without the test of next_pass: the state machine runs on
\* the status the tracker had.
UpdateTracking_IgnoresNoPass(status, tnow, next_pass, preaos_time) ==
    LET quiet == [status |-> status, publish |-> "none",
                  losDue |-> FALSE, recalc |-> FALSE]
    IN  CASE status = "WAITING" ->
               IF tnow >= next_pass.t_aos
               THEN [quiet EXCEPT !.publish = "aos"]
               ELSE IF tnow >= next_pass.t_aos - preaos_time
               THEN [quiet EXCEPT !.publish = "preaos"]
               ELSE quiet
          [] status = "AOS" ->
               IF tnow >= next_pass.t_aos
               THEN [quiet EXCEPT !.publish = "aos"]
               ELSE quiet
          [] status = "TRACKING" ->
               [quiet EXCEPT !.publish = "position",
                             !.losDue = (tnow >= next_pass.t_los)]
          [] status = "LOS" ->
               [quiet EXCEPT !.status = "WAITING", !.recalc = TRUE]
          [] OTHER -> quiet

\* update_tracking whose AOS branch, once t_aos has come, publishes a sample
\* as the TRACKING branch does.
UpdateTracking_SampleInAos(status, tnow, next_pass, preaos_time) ==
    LET st == IF next_pass = NoPass THEN "DISABLED" ELSE status
        quiet == [status |-> st, publish |-> "none",
                  losDue |-> FALSE, recalc |-> FALSE]
    IN  CASE st = "WAITING" ->
               IF tnow >= next_pass.t_aos
               THEN [quiet EXCEPT !.publish = "aos"]
               ELSE IF tnow >= next_pass.t_aos - preaos_time
               THEN [quiet EXCEPT !.publish = "preaos"]
               ELSE quiet
          [] st = "AOS" ->
               IF tnow >= next_pass.t_aos
               THEN [quiet EXCEPT !.status = "TRACKING",
                                  !.publish = "position",
                                  !.losDue = (tnow >= next_pass.t_los)]
               ELSE quiet
          [] st = "TRACKING" ->
               [quiet EXCEPT !.publish = "position",
                             !.losDue = (tnow >= next_pass.t_los)]
          [] st = "LOS" ->
               [quiet EXCEPT !.status = "WAITING", !.recalc = TRUE]
          [] OTHER -> quiet

\* update_tracking whose LOS branch leaves the passes of the target alone.
UpdateTracking_LosNoRecalc(status, tnow, next_pass, preaos_time) ==
    LET st == IF next_pass = NoPass THEN "DISABLED" ELSE status
        quiet == [status |-> st, publish |-> "none",
                  losDue |-> FALSE, recalc |-> FALSE]
    IN  CASE st = "WAITING" ->
               IF tnow >= next_pass.t_aos
               THEN [quiet EXCEPT !.publish = "aos"]
               ELSE IF tnow >= next_pass.t_aos - preaos_time
               THEN [quiet EXCEPT !.publish = "preaos"]
               ELSE quiet
          [] st = "AOS" ->
               IF tnow >= next_pass.t_aos
               THEN [quiet EXCEPT !.publish = "aos"]
               ELSE quiet
          [] st = "TRACKING" ->
               [quiet EXCEPT !.publish = "position",
                             !.losDue = (tnow >= next_pass.t_los)]
          [] st = "LOS" ->
               [quiet EXCEPT !.status = "WAITING"]
          [] OTHER -> quiet

\* update_tracking taking a DISABLED tracker back to WAITING when the target
\* has a next pass.
UpdateTracking_DisabledRecovers(status, tnow, next_pass, preaos_time) ==
    LET st == IF next_pass = NoPass THEN "DISABLED"
              ELSE IF status = "DISABLED" THEN "WAITING" ELSE status
        quiet == [status |-> st, publish |-> "none",
                  losDue |-> FALSE, recalc |-> FALSE]
    IN  CASE st = "WAITING" ->
               IF tnow >= next_pass.t_aos
               THEN [quiet EXCEPT !.publish = "aos"]
               ELSE IF tnow >= next_pass.t_aos - preaos_time
               THEN [quiet EXCEPT !.publish = "preaos"]
               ELSE quiet
          [] st = "AOS" ->
               IF tnow >= next_pass.t_aos
               THEN [quiet EXCEPT !.publish = "aos"]
               ELSE quiet
          [] st = "TRACKING" ->
               [quiet EXCEPT !.publish = "position",
                             !.losDue = (tnow >= next_pass.t_los)]
          [] st = "LOS" ->
               [quiet EXCEPT !.status = "WAITING", !.recalc = TRUE]
          [] OTHER -> quiet

\* One pass through the state machine of update_tracking, up to its first
\* publish: the status after the next_pass test, what is published, whether
\* LOS is due after a position sample, and whether the passes are recomputed.
UpdateTracking(status, tnow, next_pass, preaos_time) ==
    LET st == IF next_pass = NoPass THEN "DISABLED" ELSE status
        quiet == [status |-> st, publish |-> "none",
                  losDue |-> FALSE, recalc |-> FALSE]
    IN  CASE st = "WAITING" ->
               IF tnow >= next_pass.t_aos
               THEN [quiet EXCEPT !.publish = "aos"]
               ELSE IF tnow >= next_pass.t_aos - preaos_time
               THEN [quiet EXCEPT !.publish = "preaos"]
               ELSE quiet
          [] st = "AOS" ->
               IF tnow >= next_pass.t_aos
               THEN [quiet EXCEPT !.publish = "aos"]
               ELSE quiet
          [] st = "TRACKING" ->
               [quiet EXCEPT !.publish = "position",
                             !.losDue = (tnow >= next_pass.t_los)]
          [] st = "LOS" ->
               [quiet EXCEPT !.status = "WAITING", !.recalc = TRUE]
          [] OTHER -> quiet

SampleTime_NoLookahead(tnow) == tnow

\* The timestamp of a pointing sample taken at tnow.
SampleTime(tnow) == tnow + Lookahead

\* Target.calculate_passes(): the passes are recomputed from now on; the next
\* pass is a new one, or there is none.
CalculatePasses(offs, durs) == Passes(now, offs, durs) \cup {NoPass}

\* The task can run: start() has created it, or its sleep(2) is over.
Runnable(tracker) ==
    \/ tracker.task = "start"
    \/ tracker.task = "sleep" /\ now >= tracker.wake

\* The task dies of an exception raised by a lookup or a publish: setup()
\* catches nothing.
DriverFails(k) ==
    /\ tt' = Collect([tt EXCEPT ![k].task = "failed"], target_trackers, calls)
    /\ out' = <<>>

\* One tick begins: `while self.target`, the sleep(0) of update_tracking,
\* then the state machine up to its first publish or to its end.
DriverTick(k, offs, durs) ==
    /\ Runnable(tt[k])
    /\ tt[k].target # None
    /\ LET t == tt[k]
           u == UpdateTracking(t.status, now, t.next_pass, t.preaos_time)
           seen == [t EXCEPT !.status = u.status, !.lag = 0]
       IN  \/ /\ u.publish \in {"aos", "preaos"}
              /\ tt' = [tt EXCEPT ![k] =
                           [seen EXCEPT !.task = "sent_" \o u.publish,
                                        !.evPre = @ \/ u.publish = "preaos",
                                        !.evAos = @ \/ u.publish = "aos"]]
              /\ out' = SendEvent(u.publish, k, t.target, t.rotators)
           \/ /\ u.publish = "position"
              /\ tt' = [tt EXCEPT ![k] =
                           [seen EXCEPT !.task = "sent_pos",
                                        !.losDue = u.losDue,
                                        !.nPos = @ + 1,
                                        !.lastTs = SampleTime(now)]]
              /\ out' = <<Msg("position", k, t.target, t.rotators,
                              SampleTime(now))>>
           \/ /\ u.publish = "none" /\ ~u.recalc
              /\ tt' = [tt EXCEPT ![k] = Sleeping(seen)]
              /\ out' = <<>>
           \/ /\ u.recalc
              /\ \E p \in CalculatePasses(offs, durs) :
                    tt' = [tt EXCEPT ![k] =
                              Sleeping([seen EXCEPT !.next_pass = p,
                                                    !.nPos = 0,
                                                    !.lastTs = -1,
                                                    !.evPre = FALSE,
                                                    !.evAos = FALSE,
                                                    !.evLos = {},
                                                    !.nCalc = 1])]
              /\ out' = <<>>
    /\ ret' = NoRet
    /\ UNCHANGED <<now, target_trackers, calls, nInv, scheduler_enabled, geo>>

\* The tick's lookup or its first publish raises.  A tick that finds no next
\* pass executes neither: after get_next_pass() has returned None it logs,
\* assigns the status and falls through the state machine.
DriverTickFails(k) ==
    /\ Runnable(tt[k])
    /\ tt[k].target # None
    /\ tt[k].next_pass # NoPass
    /\ DriverFails(k)
    /\ ret' = NoRet
    /\ UNCHANGED <<now, target_trackers, calls, nInv, scheduler_enabled, geo>>

\* update_tracking leaving the status alone after preaos.
StatusAfter_PreaosStays(task) ==
    CASE task = "sent_preaos" -> "WAITING"
      [] task = "sent_aos" -> "TRACKING"
      [] task = "sent_los" -> "LOS"

\* update_tracking going straight back to WAITING after los.
StatusAfter_LosToWaiting(task) ==
    CASE task = "sent_preaos" -> "AOS"
      [] task = "sent_aos" -> "TRACKING"
      [] task = "sent_los" -> "WAITING"

\* Back from the publish of preaos, aos or los: the status is assigned and
\* the tick is over.
StatusAfter(task) ==
    CASE task = "sent_preaos" -> "AOS"
      [] task = "sent_aos" -> "TRACKING"
      [] task = "sent_los" -> "LOS"

DriverAfterEvent(k) ==
    /\ tt[k].task \in {"sent_preaos", "sent_aos", "sent_los"}
    /\ tt' = [tt EXCEPT ![k] =
                 Sleeping([tt[k] EXCEPT !.status = StatusAfter(tt[k].task)])]
    /\ out' = <<>>
    /\ ret' = NoRet
    /\ UNCHANGED <<now, target_trackers, calls, nInv, scheduler_enabled, geo>>

\* Back from broadcast_pointing: "Did LOS happen?"
DriverAfterPosition(k) ==
    /\ tt[k].task = "sent_pos"
    /\ \/ /\ tt[k].losDue
          /\ tt' = [tt EXCEPT ![k].task = "sent_los",
                              ![k].evLos = @ \cup tt[k].rotators]
          /\ out' = SendEvent("los", k, tt[k].target, tt[k].rotators)
       \/ /\ ~tt[k].losDue
          /\ tt' = [tt EXCEPT ![k] = Sleeping(tt[k])]
          /\ out' = <<>>
    /\ ret' = NoRet
    /\ UNCHANGED <<now, target_trackers, calls, nInv, scheduler_enabled, geo>>

\* The publish of los raises.
DriverLosFails(k) ==
    /\ tt[k].task = "sent_pos"
    /\ tt[k].losDue
    /\ DriverFails(k)
    /\ ret' = NoRet
    /\ UNCHANGED <<now, target_trackers, calls, nInv, scheduler_enabled, geo>>

\* ------------------------------------------------------------------ the clock
\* A driver that is due: not waiting for the end of its sleep.
Due(tracker) ==
    /\ LiveTask(tracker.task)
    /\ ~(tracker.task = "sleep" /\ now < tracker.wake)

\* Handlers suspend on sleep(0), bus publishes and ephemeris lookups, none of
\* which lasts a second of the clock.
HandlersIdle == \A c \in CallIds : calls[c].op = "idle"

\* A second passes.  sleep(2) lasts two seconds at least; the awaits of a tick
\* and a late wake-up add up to MaxTickDelay between a tick's reading of the
\* clock and the next one's.
Advance(maxTime) ==
    /\ now < maxTime
    /\ HandlersIdle
    /\ \A k \in TrackerIds : Due(tt[k]) => tt[k].lag < MaxTickDelay
    /\ now' = now + 1
    /\ tt' = [k \in TrackerIds |->
                 IF Due(tt[k]) THEN [tt[k] EXCEPT !.lag = @ + 1] ELSE tt[k]]
    /\ out' = <<>>
    /\ ret' = NoRet
    /\ UNCHANGED <<target_trackers, calls, nInv, scheduler_enabled, geo>>

\* ------------------------------------------------------- the target's passes
\* Between two ticks the answer of target.get_next_pass() changes: the passes
\* of the target have run out, whatever the status of the tracker, ...
PassLost(k) ==
    /\ tt[k].target # None
    /\ tt[k].task \in {"start", "sleep"}
    /\ tt[k].next_pass # NoPass
    /\ tt' = [tt EXCEPT ![k].next_pass = NoPass]
    /\ out' = <<>>
    /\ ret' = NoRet
    /\ UNCHANGED <<now, target_trackers, calls, nInv, scheduler_enabled, geo>>

\* ... or the target has a next pass again.
PassFound(k, offs, durs) ==
    /\ tt[k].target # None
    /\ tt[k].task \in {"start", "sleep"}
    /\ tt[k].next_pass = NoPass
    /\ \E p \in Passes(now, offs, durs) :
          tt' = [tt EXCEPT ![k].next_pass = p, ![k].nPos = 0,
                           ![k].lastTs = -1, ![k].evPre = FALSE,
                           ![k].evAos = FALSE, ![k].evLos = {}]
    /\ out' = <<>>
    /\ ret' = NoRet
    /\ UNCHANGED <<now, target_trackers, calls, nInv, scheduler_enabled, geo>>

\* -------------------------------------------------------------- specification
\* ----------------------------------------------------------- scheduler_event
TRACKER_TYPE == "orbit"

\* A message of the scheduler exchange is delivered: the handler task starts
\* and suspends at its sleep(0).  json_ok tells whether the body parses; the
\* tracker field is "" when the body has none.
SchedulerEvent(c, routing_key, json_ok, tracker, target, rotators, preaos_time) ==
    /\ LowestIdle(c)
    /\ nInv' = nInv + 1
    /\ calls' = [calls EXCEPT ![c] =
                    [IdleCall EXCEPT !.op = "event", !.pc = "s_sleep0",
                                     !.routing_key = routing_key,
                                     !.json_ok = json_ok,
                                     !.tracker = tracker,
                                     !.target_name = target,
                                     !.rotators = rotators,
                                     !.preaos_time = preaos_time]]
    /\ out' = <<>>
    /\ ret' = NoRet
    /\ UNCHANGED <<now, target_trackers, tt, scheduler_enabled, geo>>

SchedulerAccepts_AnyTracker(call) ==
    /\ scheduler_enabled
    /\ call.json_ok

SchedulerAccepts_WhenDisabled(call) ==
    /\ call.json_ok
    /\ call.tracker = TRACKER_TYPE

\* The three early returns of the handler, in the order of the code.
SchedulerAccepts(call) ==
    /\ scheduler_enabled
    /\ call.json_ok
    /\ call.tracker = TRACKER_TYPE

\* The handler after its sleep(0): it returns, or it awaits add_target or
\* remove_target, which run in this task up to their own first await.
SchedulerDispatch(c) ==
    /\ calls[c].op = "event"
    /\ calls[c].pc = "s_sleep0"
    /\ calls' = [calls EXCEPT ![c] =
          IF ~SchedulerAccepts(calls[c]) THEN IdleCall
          ELSE IF calls[c].routing_key = "task.start"
                 THEN [calls[c] EXCEPT !.op = "add", !.pc = "a_sleep0"]
          ELSE IF calls[c].routing_key = "task.end"
                 THEN [calls[c] EXCEPT !.op = "remove", !.pc = "r_sleep0",
                                       !.preaos_time = 0]
          ELSE IdleCall]
    /\ out' = <<>>
    /\ ret' = IF calls'[c] = IdleCall THEN Returned(calls[c], "return")
              ELSE NoRet
    /\ UNCHANGED <<now, target_trackers, tt, nInv, scheduler_enabled, geo>>

\* The rotator lists a request may name.
RotatorLists == {{"r1"}, {"r1", "r2"}}

AddInputs ==
    [target_name : Targets, rotNone : {FALSE},
     rotators : RotatorLists, preaos_time : PreaosTimes]
    \cup [target_name : {None, ""}, rotNone : {FALSE}, rotators : {{"r1"}},
          preaos_time : {DEFAULT_PREAOS_TIME}]
    \cup [target_name : {"A"}, rotNone : BOOLEAN, rotators : {{}},
          preaos_time : {DEFAULT_PREAOS_TIME}]

Handlers ==
    \/ \E c \in CallIds, a \in AddInputs :
          /\ nInv < MaxInvocations
          /\ CallAddTarget(c, a.target_name, a.rotNone, a.rotators, a.preaos_time)
    \/ \E c \in CallIds : AddTargetCheck(c)
    \/ \E c \in CallIds : LookupAnswers(c, Lookups(AosOffsets, PassDurations))
    \/ \E c \in CallIds : AddTargetResolve(c)
    \/ \E c \in CallIds : AddTargetCreate(c)
    \/ \E c \in CallIds, n \in Targets, r \in RotatorLists :
          /\ nInv < MaxInvocations
          /\ CallRemoveTarget(c, n, r)
    \/ \E c \in CallIds : RemoveStart(c)
    \/ \E c \in CallIds : RemoveResume(c)

Drivers ==
    \/ \E k \in TrackerIds : DriverTick(k, AosOffsets, PassDurations)
    \/ \E k \in TrackerIds : DriverAfterEvent(k)
    \/ \E k \in TrackerIds : DriverAfterPosition(k)

Failures ==
    \/ \E k \in TrackerIds : DriverTickFails(k)
    \/ \E k \in TrackerIds : DriverLosFails(k)

Next == Handlers \/ Drivers \/ Failures \/ Advance(MaxTime)

Spec == Init /\ [][Next]_vars

\* ------------------------------------------------------ handlers only
\* The behaviours in which only handler tasks run: requests that pass the
\* checks of add_target and find a pass, and remove requests.
RaceAnswers == {[found |-> TRUE, next_pass |-> p] :
                    p \in Passes(now, AosOffsets, PassDurations)}

NextRace ==
    \/ \E c \in CallIds, n \in Targets, r \in RotatorLists, p \in PreaosTimes :
          /\ nInv < MaxRaceInvocations
          /\ CallAddTarget(c, n, FALSE, r, p)
    \/ \E c \in CallIds : AddTargetCheck(c)
    \/ \E c \in CallIds : LookupAnswers(c, RaceAnswers)
    \/ \E c \in CallIds : AddTargetResolve(c)
    \/ \E c \in CallIds : AddTargetCreate(c)
    \/ \E c \in CallIds, n \in Targets, r \in RotatorLists :
          /\ nInv < MaxRaceInvocations
          /\ CallRemoveTarget(c, n, r)
    \/ \E c \in CallIds : RemoveStart(c)
    \/ \E c \in CallIds : RemoveResume(c)

SpecRace == Init /\ [][NextRace]_vars

\* ------------------------------------------------- passes that come and go
\* The behaviours of trackers of one target whose next pass can become
\* unavailable, and available again, between any two ticks.
NextAvail ==
    \/ \E c \in CallIds, r \in RotatorLists, p \in PreaosTimes :
          /\ nInv < MaxAvailInvocations
          /\ CallAddTarget(c, "A", FALSE, r, p)
    \/ \E c \in CallIds : AddTargetCheck(c)
    \/ \E c \in CallIds : LookupAnswers(c, RaceAnswers)
    \/ \E c \in CallIds : AddTargetResolve(c)
    \/ \E c \in CallIds : AddTargetCreate(c)
    \/ \E c \in CallIds, r \in RotatorLists :
          /\ nInv < MaxAvailInvocations
          /\ CallRemoveTarget(c, "A", r)
    \/ \E c \in CallIds : RemoveStart(c)
    \/ \E c \in CallIds : RemoveResume(c)
    \/ \E k \in TrackerIds : DriverTick(k, AosOffsets, PassDurations)
    \/ \E k \in TrackerIds : DriverAfterEvent(k)
    \/ \E k \in TrackerIds : DriverAfterPosition(k)
    \/ \E k \in TrackerIds : DriverTickFails(k)
    \/ \E k \in TrackerIds : DriverLosFails(k)
    \/ \E k \in TrackerIds : PassLost(k)
    \/ \E k \in TrackerIds : PassFound(k, {0}, PassDurations)
    \/ Advance(MaxAvailTime)

SpecAvail == Init /\ [][NextAvail]_vars

\* ------------------------------------------------------ scheduler events
\* The behaviours in which the handlers are started by scheduler events only,
\* with the module constructed with either value of scheduler_enabled.
RoutingKeys == {"task.start", "task.end", "task.status"}

TrackerTypes == {"orbit", "gnss", ""}

SchedulerEvents ==
    [routing_key : RoutingKeys, json_ok : {TRUE}, tracker : TrackerTypes,
     target : Targets, rotators : {{"r1"}}, preaos_time : PreaosTimes]
    \cup [routing_key : RoutingKeys, json_ok : {FALSE}, tracker : {""},
          target : {None}, rotators : {{}}, preaos_time : {0}]

InitSched ==
    /\ now = 0
    /\ target_trackers = <<>>
    /\ tt = [k \in TrackerIds |-> NullTracker]
    /\ calls = [c \in CallIds |-> IdleCall]
    /\ out = <<>>
    /\ ret = NoRet
    /\ nInv = 0
    /\ scheduler_enabled \in BOOLEAN
    /\ geo = NoGeo

NextSched ==
    \/ \E c \in CallIds, e \in SchedulerEvents :
          /\ nInv < MaxSchedInvocations
          /\ SchedulerEvent(c, e.routing_key, e.json_ok, e.tracker, e.target,
                            e.rotators, e.preaos_time)
    \/ \E c \in CallIds : SchedulerDispatch(c)
    \/ \E c \in CallIds : AddTargetCheck(c)
    \/ \E c \in CallIds : LookupAnswers(c, RaceAnswers)
    \/ \E c \in CallIds : AddTargetResolve(c)
    \/ \E c \in CallIds : AddTargetCreate(c)
    \/ \E c \in CallIds : RemoveStart(c)
    \/ \E c \in CallIds : RemoveResume(c)

SpecSched == InitSched /\ [][NextSched]_vars

\* ----------------------------------------------------------- scenario S5
\* One target is added at t0 = 0 with t_aos = t0 + 30, t_los = t0 + 90 and
\* preaos_time = 60; nothing is removed, nothing fails, and there is no pass
\* after this one.
S5 == [target |-> "A", rotators |-> {"r1"}, preaos_time |-> 60,
       t_aos |-> 30, t_los |-> 90, samples |-> 30]

S5Answer == {[found |-> TRUE,
              next_pass |-> [t_aos |-> now + S5.t_aos, t_los |-> now + S5.t_los]]}

NextS5 ==
    \/ /\ nInv = 0
       /\ CallAddTarget(1, S5.target, FALSE, S5.rotators, S5.preaos_time)
    \/ AddTargetCheck(1)
    \/ LookupAnswers(1, S5Answer)
    \/ AddTargetResolve(1)
    \/ AddTargetCreate(1)
    \/ \E k \in TrackerIds : DriverTick(k, {}, {})
    \/ \E k \in TrackerIds : DriverAfterEvent(k)
    \/ \E k \in TrackerIds : DriverAfterPosition(k)
    \/ /\ nInv = 1
       /\ Advance(MaxS5Time)

SpecS5 == Init /\ [][NextS5]_vars

\* ------------------------------------------------------ gs/hardware/geometry.py
\* Angles are whole degrees.  A call of geometry.py is evaluated in steps of
\* the variable geo: its arguments first, then what it returns.
Abs(x) == IF x < 0 THEN -x ELSE x

Angles == -MaxAngle..MaxAngle

\* wrapdeg without the modulo's offset: the remainder itself, shifted down
\* when it is above 180.
wrapdeg_HalfOpenAbove(angle) ==
    IF (angle % 360) > 180 THEN (angle % 360) - 360 ELSE (angle % 360)

\* wrapdeg(angle): (angle + 180) % 360 - 180, % with the sign of the divisor.
wrapdeg(angle) == ((angle + 180) % 360) - 180

\* wrapdeg(x), then wrapdeg of what it returned.
GeoWrapdeg ==
    \/ /\ geo.op = "wrapdeg" /\ geo.stage = "arg"
       /\ geo' = [geo EXCEPT !.stage = "ret", !.ret = wrapdeg(geo.angle)]
    \/ /\ geo.op = "wrapdeg" /\ geo.stage = "ret"
       /\ geo' = [geo EXCEPT !.stage = "ret2", !.ret2 = wrapdeg(geo.ret)]

WrapdegCalls ==
    {[op |-> "wrapdeg", stage |-> "arg", angle |-> x, ret |-> 0, ret2 |-> 0] :
        x \in Angles}

\* AzElRotator with gains 1 and no tilt: platform_q and payload_q are the
\* identity, and eul_to_q followed by to_azel returns the elevation (between
\* -90 and 90) and the principal value of the azimuth.
Elevations == {0, 45}
AzOffsets == {0, 30}

\* The yaw arctan2 gives for the azimuth az: its value in (-180, 180]; at the
\* cut the sign of a rounded zero decides between -180 and 180.
Yaw(az) == IF wrapdeg(az) = -180 THEN {-180, 180} ELSE {wrapdeg(az)}

\* `if not wrap:` of to_real and to_motor without the test.
Branch_AlwaysShift(az_out, az_in, wrap) ==
    IF ~wrap THEN az_out + 360 ELSE az_out

\* `if not wrap: az = (az + 360) if abs(az - az_in) > 180 else az`
Branch(az_out, az_in, wrap) ==
    IF ~wrap /\ Abs(az_out - az_in) > 180 THEN az_out + 360 ELSE az_out

\* AzElRotator.to_real(az, el, wrap): what it may return.
to_real(az, el, az_off, el_off, wrap) ==
    LET az_m == wrapdeg(az - az_off)
        el_m == el - el_off
    IN  {[yaw |-> y, az |-> Branch(y, az, wrap), el |-> el_m] : y \in Yaw(az_m)}

\* AzElRotator.to_motor(az, el, wrap): what it may return.
to_motor(az, el, az_off, el_off, wrap) ==
    {[yaw |-> wrapdeg(y + az_off),
      az |-> Branch(wrapdeg(y + az_off), az, wrap),
      el |-> el + el_off] : y \in Yaw(az)}

GeoConvert ==
    /\ geo.op \in {"to_real", "to_motor"} /\ geo.stage = "arg"
    /\ \E r \in IF geo.op = "to_real"
                 THEN to_real(geo.az, geo.el, geo.az_off, 0, geo.wrap)
                 ELSE to_motor(geo.az, geo.el, geo.az_off, 0, geo.wrap) :
          geo' = [geo EXCEPT !.stage = "ret", !.yaw = r.yaw,
                             !.ret_az = r.az, !.ret_el = r.el]

ConvertCalls ==
    {[op |-> f, stage |-> "arg", az |-> az, el |-> el, az_off |-> az_off,
      wrap |-> wrap, yaw |-> 0, ret_az |-> 0, ret_el |-> 0] :
        f \in {"to_real", "to_motor"}, az \in Angles, el \in Elevations,
        az_off \in AzOffsets, wrap \in BOOLEAN}

\* main(): one measurement as read from the input (mount azimuth az and
\* solved azimuth gt_az), made a row of data by rotator0.to_motor, then
\* pre-processed.  rotator0 is the identity (no --init).
PairAngles ==
    {x \in -360..540 : x % 15 = 0} \cup {-181, -179, 179, 181, 359, 361, 539}

\* The pre-processing shifting on the disagreement alone.
PreprocessTruth_AnyMotor(motor_az, gt_az) ==
    IF Abs(motor_az - wrapdeg(gt_az)) > 180
    THEN wrapdeg(gt_az) + 360 ELSE wrapdeg(gt_az)

\* data[:, 2] = wrapdeg(data[:, 2])
\* data[(data[:, 0] > 180) & (abs(data[:, 0] - data[:, 2]) > 180), 2] += 360
PreprocessTruth(motor_az, gt_az) ==
    IF motor_az > 180 /\ Abs(motor_az - wrapdeg(gt_az)) > 180
    THEN wrapdeg(gt_az) + 360 ELSE wrapdeg(gt_az)

GeoLoad ==
    /\ geo.op = "calibrate" /\ geo.stage = "arg"
    /\ \E r \in to_motor(geo.az, geo.el, 0, 0, FALSE) :
          geo' = [geo EXCEPT !.stage = "loaded", !.motor_az = r.az]

GeoPreprocess ==
    /\ geo.op = "calibrate" /\ geo.stage = "loaded"
    /\ geo' = [geo EXCEPT !.stage = "ret",
                          !.truth_az = PreprocessTruth(geo.motor_az, geo.gt_az)]

CalibrateCalls ==
    {[op |-> "calibrate", stage |-> "arg", az |-> az, el |-> 0,
      gt_az |-> gt_az, motor_az |-> 0, truth_az |-> 0] :
        az \in PairAngles, gt_az \in PairAngles}

\* main(), `if args.fit:` -- the rows of _data are points 1..NPoints; what the
\* optimizer returns is not modelled, so errnorm may give any errors.
Points == 1..NPoints
ErrVals == {0, 1, 2, 7}

\* The k-th smallest of the errors err of the points in S.
Kth(err, S, k) ==
    CHOOSE v \in ErrVals :
        /\ Cardinality({p \in S : err[p] < v}) < k
        /\ Cardinality({p \in S : err[p] <= v}) >= k

\* np.median(err), doubled: the middle value twice, or the sum of the two
\* middle values.
Median2(err, S) ==
    Kth(err, S, (Cardinality(S) + 1) \div 2)
        + Kth(err, S, (Cardinality(S) + 2) \div 2)

\* The mask taken over all the rows read, not over the rows retained.
Retain_FromAllRows(err, S) ==
    {p \in Points : 2 * err[p] < 3 * Median2(err, Points)}

\* I = err < 3.0 * np.median(err); _data = _data[I, :]
Retain(err, S) == {p \in S : 2 * err[p] < 3 * Median2(err, S)}

\* Parameter vectors: the ones params0 may be, and what the optimizer may
\* return (res.x).  NoFit: no optimizer call has returned yet.
InitialParams == {"p0", "p1"}
FittedParams == {"p0", "p1", "p2"}
NoFit == "none"

\* The optimizer warm-started from the parameters of the iteration before.
OptimizerStart_Previous(params0, x) == IF x = NoFit THEN params0 ELSE x

\* The x0 argument of least_squares / minimize, given params0 and the res.x
\* of the iteration before: the code passes params0.
OptimizerStart(params0, x) == params0

\* One outlier-rejection iteration: the optimizer is started from x0 and
\* returns some res.x, the errors of the rows under res.x select the rows
\* kept.  With no rows left the optimizer may raise.
GeoFitIteration ==
    /\ geo.op = "fit" /\ geo.stage = "loop" /\ geo.i < geo.iters
    /\ \/ /\ geo.retained # {}
          /\ \E err \in [Points -> ErrVals], x \in FittedParams :
                geo' = [geo EXCEPT !.i = @ + 1,
                                   !.x0 = OptimizerStart(geo.params0, geo.x),
                                   !.x = x,
                                   !.prev = geo.x,
                                   !.retained = Retain(err, geo.retained)]
       \/ /\ geo.retained = {}
          /\ \/ \E x \in FittedParams :
                   geo' = [geo EXCEPT !.i = @ + 1,
                                      !.x0 = OptimizerStart(geo.params0, geo.x),
                                      !.x = x,
                                      !.prev = geo.x]
             \/ geo' = [geo EXCEPT !.stage = "raised"]

GeoFitEnd ==
    /\ geo.op = "fit" /\ geo.stage = "loop" /\ geo.i = geo.iters
    /\ geo' = [geo EXCEPT !.stage = "ret"]

FitCalls ==
    {[op |-> "fit", stage |-> "loop", i |-> 0, iters |-> n, loaded |-> S,
      retained |-> S, params0 |-> p, x0 |-> NoFit, x |-> NoFit,
      prev |-> NoFit] :
        n \in 1..MaxIters, S \in (SUBSET Points) \ {{}}, p \in InitialParams}

\* ------------------------------------------------------- broadcast_pointing
\* Angles of a pointing sample are counted in thousandths of a degree.
Milli == 1000

\* round(x, 2): the nearest hundredth.  A value halfway between two
\* hundredths goes to either, as the binary value of the float decides.
Round2(x) ==
    LET lo == x - (x % 10)
    IN  IF (x % 10) < 5 THEN {lo}
        ELSE IF (x % 10) > 5 THEN {lo + 10}
        ELSE {lo, lo + 10}

ClampEl(el) == IF el < 0 THEN 0 ELSE el

NormalizeAz_Never(az) == az

NormalizeAz(az) == IF az > 180 * Milli THEN az - 360 * Milli ELSE az

\* The predicted angles handed to broadcast_pointing: azimuths in [0, 360)
\* next to 0, 180 and 360 and in mid range, elevations on both sides of 0.
PredictedAz ==
    {d * Milli + f : d \in {0, 90, 179, 180, 270, 359},
                     f \in (0..12) \cup ((Milli - 12)..(Milli - 1))}

PredictedEl == {-90 * Milli, -6, -5, -4, 0, 4, 5, 6, 45 * Milli, 90 * Milli}

BroadcastCalls ==
    [op : {"broadcast_pointing"}, stage : {"arg"}, az : PredictedAz,
     el : PredictedEl, pub_az : {0}, pub_el : {0}]

GeoBroadcast ==
    /\ geo.op = "broadcast_pointing" /\ geo.stage = "arg"
    /\ \E a \in Round2(NormalizeAz(geo.az)), e \in Round2(ClampEl(geo.el)) :
          geo' = [geo EXCEPT !.stage = "ret", !.pub_az = a, !.pub_el = e]

\* ------------------------------------------------------ TargetTracker.stop
\* stop(rotators) called on a tracker in any state: a tracker that holds
\* rotators has a target, one that holds none has been cleared.
StopTrackers ==
    {[NullTracker EXCEPT !.target = IF S = {} THEN None ELSE "A",
                         !.rotators = S, !.status = st, !.task = t] :
        S \in SUBSET Rotators, st \in Statuses,
        t \in {"start", "sleep", "sent_pos", "failed", "cancelled"}}

StopCalls ==
    [op : {"stop"}, stage : {"arg"}, tracker : StopTrackers,
     rotators : SUBSET Rotators, left : {NullTracker}, events : {<<>>}]

GeoStop ==
    /\ geo.op = "stop" /\ geo.stage = "arg"
    /\ geo' = [geo EXCEPT !.stage = "ret",
                          !.left = Stop(geo.tracker, geo.rotators),
                          !.events = StopEvents(1, geo.tracker, geo.rotators)]

GeoCalls ==
    WrapdegCalls \cup ConvertCalls \cup CalibrateCalls \cup FitCalls
        \cup BroadcastCalls \cup StopCalls

\* Nothing of the tracker runs while geometry.py is evaluated.
trackerVars ==
    <<now, target_trackers, tt, calls, out, ret, nInv, scheduler_enabled>>

InitGeo ==
    /\ now = 0
    /\ target_trackers = <<>>
    /\ tt = [k \in TrackerIds |-> NullTracker]
    /\ calls = [c \in CallIds |-> IdleCall]
    /\ out = <<>>
    /\ ret = NoRet
    /\ nInv = 0
    /\ scheduler_enabled = TRUE
    /\ geo \in GeoCalls

NextGeo ==
    \/ GeoWrapdeg /\ UNCHANGED trackerVars
    \/ GeoConvert /\ UNCHANGED trackerVars
    \/ GeoLoad /\ UNCHANGED trackerVars
    \/ GeoPreprocess /\ UNCHANGED trackerVars
    \/ GeoFitIteration /\ UNCHANGED trackerVars
    \/ GeoFitEnd /\ UNCHANGED trackerVars
    \/ GeoBroadcast /\ UNCHANGED trackerVars
    \/ GeoStop /\ UNCHANGED trackerVars

SpecGeo == InitGeo /\ [][NextGeo]_vars

\* ====================================================================== claims

\* C1 (as claimed): the supervisor's collection never holds two trackers for
\* the same target_name, whatever the interleaving of add_target and
\* remove_target.
C1_NoTwoTrackersShareTarget ==
    \A i, j \in 1..Len(target_trackers) :
        (i < j /\ tt[target_trackers[i]].target # None)
            => tt[target_trackers[i]].target # tt[target_trackers[j]].target

\* C4 (as claimed): a remove_target that names every rotator of a tracker
\* stops that tracker's driver for good and, when it returns, the tracker is
\* no longer in the collection.
C4_RemoveAllDropsTracker ==
    [][\A c \in CallIds :
         (calls[c].op = "remove" /\ calls'[c].op = "idle"
             /\ ret'.how = "returned")
            => \A k \in calls[c].emptied :
                  /\ k \notin Range(target_trackers')
                  /\ ~LiveTask(tt'[k].task)]_vars


\* ------------------------------------------------ what a step has published
Published(key, k) == \E i \in 1..Len(out') : out'[i].key = key /\ out'[i].id = k

\* The los of the driver's own tick, as opposed to the los of stop().
DriverLos(k) == tt[k].task = "sent_pos" /\ tt'[k].task = "sent_los"

\* C2 (as claimed): no aos before the preaos of the pass, no los before its aos.
C2_PreaosAosLosOrder ==
    [][\A k \in TrackerIds :
         /\ Published("aos", k) => tt[k].evPre
         /\ Published("los", k) => tt[k].evAos]_vars

\* C2 (amended): within a pass preaos is never published after aos, neither is
\* published twice, and the driver's own los comes after the aos of the pass;
\* aos without preaos (pass already running) and the los of stop() in any
\* state are what the code does.
C2_DriverEventOrder ==
    [][\A k \in TrackerIds :
         /\ Published("preaos", k) => ~tt[k].evPre /\ ~tt[k].evAos
         /\ Published("aos", k) => ~tt[k].evAos
         /\ (Published("los", k) /\ DriverLos(k)) => tt[k].evAos]_vars

C2_Witness ==
    \E k \in TrackerIds :
        /\ tt[k].evPre /\ tt[k].evAos /\ tt[k].task = "sent_los"
        /\ out # <<>> /\ out[1].key = "los" /\ out[1].id = k

\* C3: within a pass the status only moves forward along
\* WAITING -> AOS -> TRACKING -> LOS, until LOS -> WAITING.
C3_StatusMonotonic ==
    [][\A k \in TrackerIds :
         (tt[k].target # None /\ tt'[k].target # None
             /\ tt'[k].status # tt[k].status /\ tt'[k].status # "DISABLED")
            => \/ TrackerStatus[tt'[k].status] > TrackerStatus[tt[k].status]
               \/ tt[k].status = "LOS" /\ tt'[k].status = "WAITING"]_vars

C3_Witness ==
    \E k \in TrackerIds :
        tt[k].status = "LOS" /\ tt[k].evPre /\ tt[k].evAos /\ tt[k].target # None

\* C6 (as claimed): consecutive position samples of a tracker are one second
\* apart.
C6_SamplesOneSecondApart ==
    [][\A k \in TrackerIds :
         (Published("position", k) /\ tt[k].lastTs >= 0)
            => tt'[k].lastTs - tt[k].lastTs = 1]_vars

\* C6 (amended): consecutive position samples of a tracker in one pass are
\* one tick apart: two seconds, plus the time by which the tick runs late.
C6_SamplesOneTickApart ==
    [][\A k \in TrackerIds :
         (Published("position", k) /\ tt[k].lastTs >= 0)
            => /\ tt'[k].lastTs - tt[k].lastTs >= TickSleep
               /\ tt'[k].lastTs - tt[k].lastTs <= TickSleep + MaxTickDelay]_vars

C6_Witness ==
    \E k \in TrackerIds :
        /\ tt[k].nPos >= 2 /\ tt[k].task = "sent_pos"
        /\ out # <<>> /\ out[1].key = "position" /\ out[1].id = k

\* C7: add_target with a missing or empty name, with missing or empty
\* rotators, or for a name that already has a tracker ends at once: the
\* collection and every tracker are unchanged, no task is started, nothing is
\* published.
BadAddRequest(call) ==
    \/ call.target_name \in {None, ""}
    \/ call.rotNone \/ call.rotators = {}
    \/ \E i \in 1..Len(target_trackers) :
          tt[target_trackers[i]].target = call.target_name

C7_BadAddChangesNothing ==
    [][\A c \in CallIds :
         (calls[c].op = "add" /\ calls[c].pc = "a_sleep0" /\ BadAddRequest(calls[c])
             /\ calls'[c] # calls[c])
            => /\ calls'[c] = IdleCall /\ ret' # NoRet
               /\ target_trackers' = target_trackers
               /\ tt' = tt
               /\ out' = <<>>]_vars

C7_Witness ==
    /\ ret.op = "add" /\ ret.how = "returned" /\ ret.at = "a_sleep0"
    /\ ret.target_name = "A" /\ ret.rotators = {"r1"}
    /\ out = <<>>
    /\ Len(target_trackers) = 1
    /\ tt[target_trackers[1]].target = "A"
    /\ tt[target_trackers[1]].status = "TRACKING"

\* C8: when the ephemeris adapter returns no target, or a target without a
\* next pass, add_target creates no tracker, starts no task and publishes no
\* next_pass.
C8_NoPassNoTracker ==
    [][\A c \in CallIds :
         (calls[c].op = "add" /\ calls[c].pc = "a_answer"
             /\ (~calls[c].found \/ calls[c].next_pass = NoPass)
             /\ calls'[c] # calls[c])
            => /\ calls'[c] = IdleCall
               /\ target_trackers' = target_trackers
               /\ tt' = tt
               /\ out' = <<>>]_vars

C8_Witness ==
    /\ ret.op = "add" /\ ret.how = "returned" /\ ret.at = "a_answer"
    /\ out = <<>>
    /\ target_trackers = <<>>
    /\ \A k \in TrackerIds : tt[k] = NullTracker

\* C9 (as claimed): a failed lookup or publish skips the tick and leaves the
\* driver task running, so that the next tick retries.
C9_DriverSurvivesFailure ==
    \A k \in TrackerIds : tt[k].task # "failed"

\* C10 (as claimed): a los already published for a rotator of a tracker in a
\* pass is not published again.
C10_LosNotDuplicated ==
    [][\A k \in TrackerIds : \A i \in 1..Len(out') :
         (out'[i].key = "los" /\ out'[i].id = k)
            => out'[i].rotators \cap tt[k].evLos = {}]_vars


\* ------------------------------------------------------------------ S5 (C5)
LastPublished(key) == out # <<>> /\ out[1].key = key

\* The clock as read by the tick that published the last position sample.
LastTickTime(k) == tt[k].lastTs - Lookahead

S5FirstTickPreaos ==
    (tt[1].task \notin {"none", "start"} /\ tt[1].next_pass # NoPass)
        => tt[1].evPre

\* C5 (as claimed): next_pass on add, preaos on the first tick, aos within 2 s
\* after t0+30, at least 30 position samples, then los within 2 s after t0+90.
C5_S5Sequence ==
    /\ LastPublished("next_pass") => tt[1].task = "none"
    /\ S5FirstTickPreaos
    /\ LastPublished("aos") =>
          tt[1].evPre /\ now >= S5.t_aos /\ now <= S5.t_aos + 2
    /\ LastPublished("position") => tt[1].evAos
    /\ LastPublished("los") =>
          /\ tt[1].nPos >= S5.samples
          /\ now >= S5.t_los /\ now <= S5.t_los + 2

\* C5 (amended): next_pass on add, preaos on the first tick, aos on the first
\* tick at or after t0+30, then one position sample per tick, at most 30 (30
\* when no tick runs late, fewer when ticks run late, never none), then los on
\* the first tick at or after t0+90; the ticks of aos and los read the clock
\* within one tick period (2 s plus the lateness) of t0+30 and t0+90.
C5_S5SequenceLateTicks ==
    /\ LastPublished("next_pass") => tt[1].task = "none"
    /\ S5FirstTickPreaos
    /\ LastPublished("aos") =>
          /\ tt[1].evPre
          /\ now >= S5.t_aos /\ now <= S5.t_aos + TickSleep + MaxTickDelay
    /\ LastPublished("position") => tt[1].evAos
    /\ LastPublished("los") =>
          /\ tt[1].nPos >= 1 /\ tt[1].nPos <= S5.samples
          /\ tt[1].nPos * (TickSleep + MaxTickDelay)
                > (S5.t_los - S5.t_aos) - (TickSleep + MaxTickDelay)
          /\ LastTickTime(1) >= S5.t_los
          /\ LastTickTime(1) <= S5.t_los + TickSleep + MaxTickDelay
    /\ now = MaxS5Time => (tt[1].status = "LOS" \/ tt[1].next_pass = NoPass)

C5_Witness ==
    /\ LastPublished("los")
    /\ tt[1].evPre /\ tt[1].evAos
    /\ tt[1].nPos = S5.samples
    /\ now = S5.t_los

\* ------------------------------------------------------------------ C11
\* A step in which stop() takes the last rotators of tracker k.
Empties(k) == tt[k].target # None /\ tt'[k].target = None

C12_WrapdegHalfOpenAbove ==
    (geo.op = "wrapdeg" /\ geo.stage # "arg") =>
        /\ geo.ret > -180 /\ geo.ret <= 180
        /\ geo.angle = 180 => geo.ret = 180
        /\ geo.stage = "ret2" => geo.ret2 = geo.ret

\* C12 (amended): wrapdeg(x) lies in [-180, 180) and is congruent to x modulo
\* 360, so wrapdeg(180) = -180 and 180 is never returned; and
\* wrapdeg(wrapdeg(x)) = wrapdeg(x).
C12_WrapdegHalfOpenBelow ==
    (geo.op = "wrapdeg" /\ geo.stage # "arg") =>
        /\ geo.ret >= -180 /\ geo.ret < 180
        /\ (geo.ret - geo.angle) % 360 = 0
        /\ geo.angle = 180 => geo.ret = -180
        /\ geo.stage = "ret2" => geo.ret2 = geo.ret

C12_Witness ==
    /\ geo.op = "wrapdeg" /\ geo.stage = "ret2"
    /\ geo.angle = 540 /\ geo.ret = -180 /\ geo.ret2 = -180

\* ------------------------------------------------------------------ C13
\* A call of to_real or to_motor of the identity rotator with wrap=False has
\* returned.
IdentityNoWrap ==
    /\ geo.op \in {"to_real", "to_motor"} /\ geo.stage = "ret"
    /\ geo.az_off = 0 /\ ~geo.wrap

\* C13 (as claimed): with wrap=False the wrapped azimuth is returned plus 360
\* exactly when it differs from the input by more than 180, and for identity
\* parameters the result is congruent to the input modulo 360 and within 180
\* of it, for every input azimuth.
C13_BranchKeptEverywhere ==
    IdentityNoWrap =>
        /\ geo.ret_az = IF Abs(geo.yaw - geo.az) > 180
                        THEN geo.yaw + 360 ELSE geo.yaw
        /\ (geo.ret_az - geo.az) % 360 = 0
        /\ Abs(geo.ret_az - geo.az) <= 180

\* C13 (amended): the first part as claimed; for identity parameters the
\* result is congruent to the input modulo 360, and it is the input itself
\* when -180 < az < 540; outside that range the result is not within 180 of
\* the input (one +360 does not reach its branch, or goes away from it),
\* except at az = -180 and az = 540, where the sign arctan2 gives the cut
\* decides.
C13_BranchKeptInRange ==
    IdentityNoWrap =>
        /\ geo.ret_az = IF Abs(geo.yaw - geo.az) > 180
                        THEN geo.yaw + 360 ELSE geo.yaw
        /\ (geo.ret_az - geo.az) % 360 = 0
        /\ (geo.az > -180 /\ geo.az < 540) => geo.ret_az = geo.az
        /\ (geo.az < -180 \/ geo.az > 540) => Abs(geo.ret_az - geo.az) >= 360

C13_Witness ==
    /\ IdentityNoWrap /\ geo.op = "to_real"
    /\ geo.az = 350 /\ geo.yaw = -10 /\ geo.ret_az = 350

\* ------------------------------------------------------------------ C14
Preprocessed == geo.op = "calibrate" /\ geo.stage = "ret"

\* C14 (as claimed): the truth azimuth is wrapped and shifted by +360
\* whenever it disagrees with the motor azimuth by more than 180, and after
\* that no pair differs by more than 180.
C14_PairsWithin180 ==
    Preprocessed =>
        /\ geo.truth_az = IF Abs(geo.motor_az - wrapdeg(geo.gt_az)) > 180
                          THEN wrapdeg(geo.gt_az) + 360 ELSE wrapdeg(geo.gt_az)
        /\ Abs(geo.motor_az - geo.truth_az) <= 180

\* C14 (amended): the truth azimuth is wrapped into [-180, 180) and shifted
\* by +360 exactly when the motor azimuth is above 180 and the two disagree
\* by more than 180; a pair whose motor azimuth is in (180, 360] then differs
\* by at most 180, any pair by less than 540.
C14_PairsShiftedAbove180 ==
    Preprocessed =>
        /\ geo.truth_az =
              IF geo.motor_az > 180
                    /\ Abs(geo.motor_az - wrapdeg(geo.gt_az)) > 180
              THEN wrapdeg(geo.gt_az) + 360 ELSE wrapdeg(geo.gt_az)
        /\ (geo.truth_az - geo.gt_az) % 360 = 0
        /\ (geo.motor_az > 180 /\ geo.motor_az <= 360)
              => Abs(geo.motor_az - geo.truth_az) <= 180
        /\ Abs(geo.motor_az - geo.truth_az) < 540

C14_Witness ==
    /\ Preprocessed
    /\ geo.motor_az = 345 /\ geo.gt_az = 15 /\ geo.truth_az = 375

\* ------------------------------------------------------------------ C15
\* C15: across the outlier-rejection iterations the retained set never grows:
\* the set retained after an iteration is a subset of the one before it.
C15_RetainedNeverGrows ==
    [][(geo.op = "fit" /\ geo'.op = "fit")
          => /\ geo'.retained \subseteq geo.retained
             /\ Cardinality(geo'.retained) <= Cardinality(geo.retained)]_vars

C15_Witness ==
    /\ geo.op = "fit" /\ geo.stage = "ret" /\ geo.i = 3
    /\ geo.loaded = Points /\ geo.retained = {1, 2}

\* The step of handler task c that runs scheduler_event after its sleep(0).
Dispatches(c) ==
    /\ calls[c].op = "event"
    /\ calls'[c] # calls[c]

\* scheduler_event returned without calling anything: the call is over, and
\* neither the collection, nor a tracker, nor the bus has changed.
Ignored(c) ==
    /\ calls'[c].op = "idle"
    /\ target_trackers' = target_trackers
    /\ tt' = tt
    /\ out' = <<>>

\* The handler is inside the named operation with the target and rotators of
\* the event.
Entered(c, op) ==
    /\ calls'[c].op = op
    /\ calls'[c].target_name = calls[c].target_name
    /\ calls'[c].rotators = calls[c].rotators

\* C16: a scheduler task.start event leads to add_target exactly when its
\* tracker field is "orbit" and scheduler_enabled is true; otherwise the
\* tracker collection is unchanged and no event is emitted.
C16_TaskStartDispatch ==
    [][\A c \in CallIds :
          Dispatches(c) /\ calls[c].routing_key = "task.start"
            => IF calls[c].tracker = "orbit" /\ scheduler_enabled
                 THEN /\ Entered(c, "add")
                      /\ calls'[c].preaos_time = calls[c].preaos_time
                 ELSE Ignored(c)]_vars

\* A task.start event of the orbit tracker has gone through add_target and
\* its tracker is in the collection.
C16_Witness ==
    \E c \in CallIds :
        /\ calls[c].op = "add"
        /\ calls[c].routing_key = "task.start"
        /\ calls[c].pc = "a_sent"
        /\ Len(target_trackers) = 1

\* C17 as stated: every scheduler task.end event results in
\* remove_target(target, rotators) being called.
C17_EveryTaskEndRemoves ==
    [][\A c \in CallIds :
          Dispatches(c) /\ calls[c].routing_key = "task.end"
            => Entered(c, "remove")]_vars

\* C17 as the code has it: a scheduler task.end event results in
\* remove_target(target, rotators) being called exactly when its tracker field
\* is "orbit" and scheduler_enabled is true; any other task.end event is
\* ignored.
C17_TaskEndDispatch ==
    [][\A c \in CallIds :
          Dispatches(c) /\ calls[c].routing_key = "task.end"
            => IF calls[c].tracker = "orbit" /\ scheduler_enabled
                 THEN Entered(c, "remove")
                 ELSE Ignored(c)]_vars

\* A task.end event of the orbit tracker is inside remove_target, stopping
\* the tracker that a task.start event created.
C17_Witness ==
    \E c \in CallIds :
        /\ calls[c].op = "remove"
        /\ calls[c].routing_key = "task.end"
        /\ calls[c].pc = "r_in_stop"

Broadcast == geo.op = "broadcast_pointing" /\ geo.stage = "ret"

\* C18 as stated: every published target.position sample has el >= 0 and az
\* in (-180, 180], for every predicted elevation and azimuth in [0, 360).
C18_AzHalfOpenBelow ==
    Broadcast =>
        /\ geo.pub_el >= 0
        /\ -180 * Milli < geo.pub_az /\ geo.pub_az <= 180 * Milli

\* C18 as the code has it: every published sample has el >= 0 and az in
\* [-180, 180]; az = -180 is published only for a predicted azimuth in
\* (180, 180.005], which is normalised to just above -180 and then rounded
\* to two decimals.
C18_AzClosedRange ==
    Broadcast =>
        /\ geo.pub_el >= 0
        /\ -180 * Milli <= geo.pub_az /\ geo.pub_az <= 180 * Milli
        /\ geo.pub_az = -180 * Milli
             => 180 * Milli < geo.az /\ geo.az <= 180 * Milli + 5

\* A predicted azimuth of 180.001 with a negative elevation is published as
\* az = -180.0, el = 0.
C18_Witness ==
    /\ Broadcast
    /\ geo.az = 180 * Milli + 1 /\ geo.pub_az = -180 * Milli
    /\ geo.el < 0 /\ geo.pub_el = 0

\* C19: for each tracker, target.position samples are published in
\* non-decreasing timestamp order, each timestamp being the tick's observation
\* time plus one second.
C19_SamplesInTimestampOrder ==
    [][\A k \in TrackerIds : \A i \in 1..Len(out') :
          out'[i].key = "position" /\ out'[i].id = k
            => /\ out'[i].timestamp = now + 1
               /\ tt[k].lastTs <= out'[i].timestamp]_vars

\* A tracker has just published its second sample of a pass.
C19_Witness ==
    \E k \in TrackerIds :
        /\ tt[k].task = "sent_pos"
        /\ tt[k].nPos >= 2
        /\ out # <<>> /\ out[1].key = "position" /\ out[1].id = k
        /\ out[1].timestamp = tt[k].lastTs

\* The step in which the driver of tracker k, in WAITING with a next pass,
\* runs a tick up to its first publish or to its sleep.
WaitingTick(k) ==
    /\ tt[k].status = "WAITING"
    /\ tt[k].next_pass # NoPass
    /\ tt[k].target # None
    /\ Runnable(tt[k])
    /\ now' = now
    /\ \/ tt'[k].task \in {"sent_aos", "sent_preaos"}
       \/ tt'[k].task = "sleep" /\ tt'[k].wake = now + TickSleep

\* The step in which the driver returns from the publish of the named event of
\* a WAITING tick and ends the tick.
WaitingTickEnds(k, sent) ==
    /\ tt[k].status = "WAITING"
    /\ tt[k].task = sent
    /\ tt'[k].task = "sleep"

\* C20: on a tick in WAITING with a next pass available: if now >= t_aos the
\* tracker emits aos only (no preaos) and becomes TRACKING; else if
\* now >= t_aos - preaos_time it emits preaos and becomes AOS; otherwise it
\* stays WAITING and emits nothing.  The t_aos test has priority when both
\* conditions hold.
C20_WaitingTick ==
    [][\A k \in TrackerIds :
          /\ WaitingTick(k) =>
                IF now >= tt[k].next_pass.t_aos
                  THEN /\ out' = SendEvent("aos", k, tt[k].target, tt[k].rotators)
                       /\ tt'[k].task = "sent_aos"
                ELSE IF now >= tt[k].next_pass.t_aos - tt[k].preaos_time
                  THEN /\ out' = SendEvent("preaos", k, tt[k].target,
                                           tt[k].rotators)
                       /\ tt'[k].task = "sent_preaos"
                ELSE /\ out' = <<>>
                     /\ tt'[k].task = "sleep"
                     /\ tt'[k].status = "WAITING"
          /\ WaitingTickEnds(k, "sent_aos") => tt'[k].status = "TRACKING"
          /\ WaitingTickEnds(k, "sent_preaos") => tt'[k].status = "AOS"]_vars

\* A WAITING tracker inside its preaos window and past t_aos at once has
\* published aos, and no preaos before it.
C20_Witness ==
    \E k \in TrackerIds :
        /\ tt[k].status = "WAITING" /\ tt[k].task = "sent_aos"
        /\ ~tt[k].evPre
        /\ now >= tt[k].next_pass.t_aos
        /\ out # <<>> /\ out[1].key = "aos" /\ out[1].id = k

\* The step in which the driver of tracker k begins a tick: from its start or
\* its sleep(2) to the first publish, the next sleep(2) or an exception.
Ticks(k) ==
    /\ Runnable(tt[k])
    /\ tt[k].target # None
    /\ now' = now
    /\ calls' = calls
    /\ tt'[k].task # tt[k].task \/ tt'[k].wake # tt[k].wake

\* C21: on any tick where the target's next pass is unavailable, whatever the
\* tracker's current status, the status becomes DISABLED and that tick emits
\* no lifecycle event and no target.position sample and does not fail.
C21_NoPassDisables ==
    [][\A k \in TrackerIds :
          Ticks(k) /\ tt[k].next_pass = NoPass
            => /\ tt'[k].status = "DISABLED"
               /\ out' = <<>>
               /\ tt'[k].task = "sleep"]_vars

\* A tracker that had published samples of a pass (it was TRACKING) is
\* DISABLED and asleep: its pass went away between two ticks.
C21_Witness ==
    \E k \in TrackerIds :
        /\ tt[k].status = "DISABLED"
        /\ tt[k].task = "sleep"
        /\ tt[k].next_pass = NoPass
        /\ tt[k].nPos >= 1

\* C22: a tick publishes a target.position sample exactly when the tracker's
\* status at the start of the tick is TRACKING and a next pass is available:
\* one sample and nothing else in that step, none on the tick that emits aos,
\* none in WAITING, AOS, LOS or DISABLED; the los of the tick that detects LOS
\* is published in the step after the sample's.  Ticks that raise are left
\* out.
C22_SampleIffTracking ==
    [][\A k \in TrackerIds :
          /\ Published("position", k) => Ticks(k) /\ Len(out') = 1
          /\ Ticks(k) /\ LiveTask(tt'[k].task)
               => (Published("position", k)
                    <=> tt[k].status = "TRACKING" /\ tt[k].next_pass # NoPass)
          /\ DriverLos(k) /\ Published("los", k)
               => tt[k].nPos >= 1 /\ ~Published("position", k)]_vars

\* The tick that detects LOS has published its sample and not yet its los.
C22_Witness ==
    \E k \in TrackerIds :
        /\ tt[k].task = "sent_pos"
        /\ tt[k].losDue
        /\ tt[k].status = "TRACKING"
        /\ out # <<>> /\ out[1].key = "position" /\ out[1].id = k

\* C23: a tracker in LOS moves to WAITING on its next tick and recomputes the
\* target's passes on that tick, emitting no event, provided a next pass is
\* available at that tick (and the tick does not raise).
C23_LosToWaiting ==
    [][\A k \in TrackerIds :
          Ticks(k) /\ LiveTask(tt'[k].task)
            /\ tt[k].status = "LOS" /\ tt[k].next_pass # NoPass
            => /\ tt'[k].status = "WAITING"
               /\ tt'[k].task = "sleep"
               /\ out' = <<>>
               /\ tt'[k].nCalc = 1
               /\ tt'[k].next_pass \in
                    Passes(now, AosOffsets, PassDurations) \cup {NoPass}]_vars

\* After a pass a tracker is WAITING for the pass it has computed on the tick
\* that followed LOS.
C23_Witness ==
    \E k \in TrackerIds :
        /\ tt[k].status = "WAITING"
        /\ tt[k].task = "sleep"
        /\ tt[k].nCalc = 1
        /\ tt[k].next_pass # NoPass
        /\ tt[k].next_pass.t_aos >= now

\* The step that constructs tracker k.
Created(k) == tt[k].target = None /\ tt'[k].target # None

\* C24: a successful add_target emits next_pass before the tracker is created
\* and its driver started, so for every tracker its next_pass event precedes
\* every preaos, aos, los and target.position of that tracker, and the tracker
\* enters the collection in status WAITING.
C24_NextPassFirst ==
    [][/\ \A c \in CallIds :
            calls'[c].op = "add" /\ calls'[c].pc = "a_sent"
              /\ calls[c].pc # "a_sent"
              => out' = SendEvent("next_pass", 0, calls[c].target_name,
                                  calls[c].rotators)
       /\ \A k \in TrackerIds :
            /\ Created(k)
                 => /\ \E c \in CallIds :
                          /\ calls[c].op = "add" /\ calls[c].pc = "a_sent"
                          /\ calls[c].target_name = tt'[k].target
                          /\ calls'[c].op = "idle"
                    /\ out' = <<>>
                    /\ tt'[k].status = "WAITING"
                    /\ tt'[k].task = "start"
                    /\ k \notin Range(target_trackers)
                    /\ k \in Range(target_trackers')
            /\ (\E key \in {"preaos", "aos", "los", "position"} :
                    Published(key, k))
                 => tt[k].target # None /\ ~Created(k)]_vars

\* add_target has returned from its last line: the tracker it announced is at
\* the end of the collection, WAITING, its driver not yet run.
C24_Witness ==
    /\ ret.op = "add" /\ ret.how = "returned" /\ ret.at = "a_sent"
    /\ target_trackers # <<>>
    /\ LET k == target_trackers[Len(target_trackers)]
       IN  /\ tt[k].target = ret.target_name
           /\ tt[k].status = "WAITING"
           /\ tt[k].task = "start"

\* C25: stop(R) on a tracker with rotator set S leaves the rotator set S \ R;
\* it emits exactly one los naming S \cap R when that intersection is non-empty
\* and no event otherwise; the driver task is cancelled and the target cleared
\* exactly when S \ R is empty, and otherwise the tracker's status and driver
\* task are unchanged.
C25_StopEffect ==
    geo.op = "stop" /\ geo.stage = "ret" =>
        LET S == geo.tracker.rotators
            R == geo.rotators
        IN  /\ geo.left.rotators = S \ R
            /\ geo.events =
                 IF S \cap R # {}
                 THEN <<Msg("los", 1, geo.tracker.target, S \cap R, 0)>>
                 ELSE <<>>
            /\ IF S \ R = {}
               THEN /\ geo.left.target = None
                    /\ geo.left.task =
                         IF LiveTask(geo.tracker.task) THEN "cancelled"
                         ELSE geo.tracker.task
               ELSE /\ geo.left.target = geo.tracker.target
                    /\ geo.left.target # None
                    /\ geo.left.task = geo.tracker.task
                    /\ geo.left.status = geo.tracker.status

\* stop({r1}) on a TRACKING tracker of r1 and r2 has published los for r1 and
\* left the tracker running on r2.
C25_Witness ==
    /\ geo.op = "stop" /\ geo.stage = "ret"
    /\ geo.tracker.rotators = {"r1", "r2"} /\ geo.rotators = {"r1"}
    /\ geo.tracker.status = "TRACKING" /\ geo.tracker.task = "sleep"
    /\ geo.left.rotators = {"r2"} /\ geo.left.task = "sleep"
    /\ Len(geo.events) = 1

\* A step of the remove_target invocation c: from its sleep(0) or from a
\* stop() to the next stop(), to the rebuilt list or to an exception.
RemoveSteps(c) ==
    /\ calls[c].op = "remove"
    /\ \/ calls'[c].pc # calls[c].pc
       \/ calls'[c].i # calls[c].i
       \/ calls'[c].op = "idle"

\* Tracker k has a target and is not one that remove_target(name, R) of
\* invocation c is to change.
Other(k, c) ==
    /\ tt[k].target # None
    /\ ~(/\ tt[k].target = calls[c].target_name
         /\ tt[k].rotators \cap calls[c].rotators # {})

\* The trackers of a list that are other trackers for c, in list order.
Others(list, c) == SelectSeq(list, LAMBDA k : Other(k, c))

\* C26: remove_target(name, R) changes only trackers whose target_name equals
\* name and whose rotator set intersects R: every other tracker keeps its
\* rotator set, status and driver task and stays in the collection at the same
\* relative order, and a remove_target that matches no tracker emits no event.
C26_RemoveFrame ==
    [][\A c \in CallIds :
          RemoveSteps(c)
            => /\ \A k \in Range(target_trackers) :
                    Other(k, c)
                      => /\ tt'[k].rotators = tt[k].rotators
                         /\ tt'[k].status = tt[k].status
                         /\ tt'[k].task = tt[k].task
                         /\ k \in Range(target_trackers')
               /\ \A i \in 1..Len(Others(target_trackers, c)) :
                    \E j \in 1..Len(target_trackers') :
                        /\ target_trackers'[j] = Others(target_trackers, c)[i]
                        /\ \A h \in 1..(i - 1) :
                              \E g \in 1..(j - 1) :
                                  target_trackers'[g] =
                                      Others(target_trackers, c)[h]
               /\ \A m \in Range(out') :
                    /\ m.key = "los"
                    /\ m.id \in Range(target_trackers)
                    /\ ~Other(m.id, c)]_vars

\* C27: every outlier-rejection iteration starts the optimizer from the
\* initial parameter vector, never from the parameters fitted in an earlier
\* iteration; only the retained data subset is carried from one iteration to
\* the next.
C27_StartsFromInitialParams ==
    [][(geo.op = "fit" /\ geo'.op = "fit" /\ geo'.i # geo.i)
          => /\ geo'.x0 = geo.params0
             /\ geo'.params0 = geo.params0
             /\ geo'.retained \subseteq geo.retained]_vars

\* The second iteration has run from params0 on fewer rows, although the
\* first one had fitted other parameters.
C27_Witness ==
    /\ geo.op = "fit" /\ geo.i = 2
    /\ geo.prev # NoFit /\ geo.prev # geo.params0
    /\ geo.x0 = geo.params0
    /\ geo.retained # geo.loaded

\* C28: at every point where control can pass from one task to another, every
\* tracker present in the supervisor's collection has a non-null target and a
\* non-empty rotator set.
C28_ListedTrackersHaveTarget ==
    \A i \in 1..Len(target_trackers) :
        /\ tt[target_trackers[i]].target # None
        /\ tt[target_trackers[i]].rotators # {}

\* C28, the read it is to exclude: no add_target or remove_target ends with
\* the AttributeError of tt.target.target_name on a cleared target.
C28_NoReadOfClearedTarget ==
    ~(ret.how = "raised" /\ ret.at \in {"a_sleep0", "r_sleep0", "r_in_stop"})

\* Tracker k is in the collection, DISABLED.
ListedDisabled(k) ==
    /\ k \in Range(target_trackers)
    /\ tt[k].target # None
    /\ tt[k].status = "DISABLED"

\* C29: DISABLED is absorbing for the driver: once a tracker's status is
\* DISABLED it stays DISABLED on every later tick, also when a next pass
\* becomes available again, its ticks emit no event and no sample, and the
\* tracker stays in the supervisor's collection (so add_target for the same
\* name is rejected) until remove_target removes it.
C29_DisabledAbsorbing ==
    [][\A k \in TrackerIds :
          /\ tt[k].status = "DISABLED" /\ tt[k].target # None
                /\ tt'[k].target # None
               => tt'[k].status = "DISABLED"
          /\ Ticks(k) /\ tt[k].status = "DISABLED" => out' = <<>>
          /\ k \in Range(target_trackers) /\ k \notin Range(target_trackers')
               => \E c \in CallIds : RemoveSteps(c) /\ calls'[c].op = "idle"
          /\ ListedDisabled(k) /\ C28_ListedTrackersHaveTarget
               => \A c \in CallIds :
                     calls[c].op = "add" /\ calls[c].pc = "a_sleep0"
                       /\ calls[c].target_name = tt[k].target
                       /\ calls'[c] # calls[c]
                       => /\ calls'[c].op = "idle"
                          /\ ret'.how = "returned"
                          /\ target_trackers' = target_trackers]_vars

\* A DISABLED tracker has run a tick after its target got a next pass again,
\* and is DISABLED still.
C29_Witness ==
    \E k \in TrackerIds :
        /\ ListedDisabled(k)
        /\ tt[k].next_pass # NoPass
        /\ tt[k].task = "sleep"
        /\ tt[k].wake > tt[k].next_pass.t_aos + TickSleep
====
